---------------------------- MODULE Spec2Model ----------------------------
(***************************************************************************)
(* A model of the note-summarizer's LLM layer:                             *)
(*   - EnhancedLLMProcessor (models/enhanced_llm_processor.py): client     *)
(*     construction per provider, process_notes, _generate_summary and     *)
(*     _generate_flashcards with the embedded-array normalisation;         *)
(*   - LLMProcessor.generate_flashcards (models/llm_processor.py): the     *)
(*     line-tagged normalisation;                                          *)
(*   - LLMProviderManager (models/llm_provider.py): the provider catalog;  *)
(*   - the Streamlit flow of app/main.py around them.                      *)
(*                                                                         *)
(* Text is a sequence of atoms.  A response to the flashcard prompt is a   *)
(* sequence of JSON lexemes ("[", "]", ",", a whole record object) and of  *)
(* non-JSON words; the raw text of the line-tagged parser is a sequence of *)
(* characters.  Python's None is the model value None.                     *)
(***************************************************************************)
EXTENDS Integers, Sequences, FiniteSets, TLC

VARIABLES
    env,        \* os.environ restricted to the credential variables
    proc,       \* the EnhancedLLMProcessor under construction / constructed
    req,        \* inputs of the last process_notes call (what the backend did)
    out,        \* outcome of the last process_notes call
    calls,      \* generation calls issued to the client by that call, in order
    workers,    \* concurrent constructions: one record per Streamlit session thread
    line_in,    \* raw text handed to the line-tagged parser
    line_out,   \* what LLMProcessor.generate_flashcards returned for it
    session,    \* st.session_state of app/main.py
    tmp_files,  \* temporary files of the upload flow that exist on disk
    last_click, \* what the last Process Notes click of app/main.py did
    last_save,  \* what the last Save Configuration click of app/main.py did
    lookup,     \* a call of an LLMProviderManager method: method and arguments
    answer      \* what that call did

vars == <<env, proc, req, out, calls, workers, line_in, line_out,
          session, tmp_files, last_click, last_save, lookup, answer>>

None == "None"

-----------------------------------------------------------------------------
(* Bounds *)

\* longest flashcard response, in lexemes, that is enumerated exhaustively
MaxLen == 3

\* most lines of a raw line-tagged text
MaxLines == 3

\* Streamlit session threads constructing a processor at the same time
NThreads == 2

\* most temporary files left on disk that are counted
MaxTmp == 2

-----------------------------------------------------------------------------
(* Sequence helpers: Python's str operations on sequences of atoms *)

\* all sequences over S of length at most n
SeqsUpTo(S, n) == UNION {[1..k -> S] : k \in 0..n}

\* str.find(ch): 0-based index of the first occurrence, -1 when absent
find(s, ch) ==
    IF \E i \in 1..Len(s) : s[i] = ch
    THEN (CHOOSE i \in 1..Len(s) : s[i] = ch /\ \A j \in 1..(i-1) : s[j] # ch) - 1
    ELSE -1

\* str.rfind(ch): 0-based index of the last occurrence, -1 when absent
rfind(s, ch) ==
    IF \E i \in 1..Len(s) : s[i] = ch
    THEN (CHOOSE i \in 1..Len(s) : s[i] = ch /\ \A j \in (i+1)..Len(s) : s[j] # ch) - 1
    ELSE -1

\* s[a:b] for 0 <= a, b (Python slice, clamped to the length)
Slice(s, a, b) ==
    LET hi == IF b > Len(s) THEN Len(s) ELSE b
    IN  IF a >= hi THEN <<>> ELSE SubSeq(s, a + 1, hi)

\* t occurs in s as a contiguous piece (Python's `t in s`)
Contains(s, t) ==
    \E i \in 0..(Len(s) - Len(t)) : Slice(s, i, i + Len(t)) = t


-----------------------------------------------------------------------------
(* LLMProviderManager: the provider catalog (models/llm_provider.py) *)

\* one entry of a provider's "models" list (the description is left out)
Model(id, name) == [id |-> id, name |-> name]

HuggingFaceEntry ==
    [name |-> "Hugging Face",
     models |-> <<Model("google/flan-t5-base", "Flan-T5 Base"),
                  Model("google/flan-t5-large", "Flan-T5 Large"),
                  Model("facebook/bart-large-cnn", "BART Large CNN"),
                  Model("EleutherAI/gpt-neo-1.3B", "GPT-Neo 1.3B")>>,
     requires_api_key |-> TRUE,
     api_key_name |-> "HUGGINGFACE_API_TOKEN",
     api_key_instruction |-> "Get your API key from https://huggingface.co/settings/tokens"]

\* the "openai" entry listing one model id twice
OpenAIEntry_Duplicate ==
    [name |-> "OpenAI",
     models |-> <<Model("gpt-4", "GPT-3.5 Turbo"), Model("gpt-4", "GPT-4")>>,
     requires_api_key |-> TRUE,
     api_key_name |-> "OPENAI_API_KEY",
     api_key_instruction |-> "Get your API key from https://platform.openai.com/api-keys"]

OpenAIEntry ==
    [name |-> "OpenAI",
     models |-> <<Model("gpt-3.5-turbo", "GPT-3.5 Turbo"), Model("gpt-4", "GPT-4")>>,
     requires_api_key |-> TRUE,
     api_key_name |-> "OPENAI_API_KEY",
     api_key_instruction |-> "Get your API key from https://platform.openai.com/api-keys"]

AnthropicEntry ==
    [name |-> "Anthropic",
     models |-> <<Model("claude-2", "Claude 2"), Model("claude-instant", "Claude Instant")>>,
     requires_api_key |-> TRUE,
     api_key_name |-> "ANTHROPIC_API_KEY",
     api_key_instruction |-> "Get your API key from https://console.anthropic.com/settings/keys"]

LocalEntry ==
    [name |-> "Local Models",
     models |-> <<Model("local/llama2", "Llama 2 (Local)")>>,
     requires_api_key |-> FALSE,
     api_key_name |-> None,
     api_key_instruction |->
         "No API key needed. Ensure you have the model installed locally."]

\* the keys and values LLMProviderManager.__init__ writes, in the order it
\* writes them: the dictionary display, then self.providers["local"] = ...
provider_items ==
    << <<"huggingface", HuggingFaceEntry>>,
       <<"openai", OpenAIEntry>>,
       <<"anthropic", AnthropicEntry>>,
       <<"local", LocalEntry>> >>

\* self.providers as built by LLMProviderManager.__init__: of two values
\* written under one key the later one stays
providers ==
    [p \in {provider_items[i][1] : i \in 1..Len(provider_items)} |->
        LET last == CHOOSE i \in 1..Len(provider_items) :
                        /\ provider_items[i][1] = p
                        /\ \A j \in 1..Len(provider_items) :
                               provider_items[j][1] = p => j <= i
        IN  provider_items[last][2]]

requires_api_key(provider_id) ==
    IF provider_id \in DOMAIN providers
    THEN providers[provider_id].requires_api_key
    ELSE FALSE

\* what a lookup does: it returns a value, or a KeyError leaves it
Returns(v) == [raised |-> FALSE, value |-> v]
KeyError(key) == [raised |-> TRUE, value |-> key]

get_providers == Returns(providers)

\* the keys of self.providers in iteration order
provider_ids ==
    LET firsts == {i \in 1..Len(provider_items) :
                      \A j \in 1..(i - 1) : provider_items[j][1] # provider_items[i][1]}
        F[n \in 0..Len(provider_items)] ==
            IF n = 0 THEN <<>>
            ELSE IF n \in firsts THEN Append(F[n - 1], provider_items[n][1])
            ELSE F[n - 1]
    IN  F[Len(provider_items)]

get_provider_names ==
    Returns([i \in 1..Len(provider_ids) |-> providers[provider_ids[i]].name])

get_provider_id_by_name(name) ==
    LET hits == {i \in 1..Len(provider_ids) : providers[provider_ids[i]].name = name}
    IN  IF hits = {} THEN Returns(None)
        ELSE Returns(provider_ids[CHOOSE i \in hits : \A j \in hits : i <= j])

get_models_for_provider(provider_id) ==
    IF provider_id \in DOMAIN providers
    THEN Returns(providers[provider_id].models)
    ELSE Returns(<<>>)

get_model_names_for_provider(provider_id) ==
    IF provider_id \in DOMAIN providers
    THEN LET models == providers[provider_id].models
         IN  Returns([i \in 1..Len(models) |-> models[i].name])
    ELSE Returns(<<>>)

get_model_id_by_name(provider_id, name) ==
    IF provider_id \in DOMAIN providers
    THEN LET models == providers[provider_id].models
             hits == {i \in 1..Len(models) : models[i].name = name}
         IN  IF hits = {} THEN Returns(None)
             ELSE Returns(models[CHOOSE i \in hits : \A j \in hits : i <= j].id)
    ELSE Returns(None)

\* get_api_key_name reading self.providers[provider_id] with no membership test
get_api_key_name_Unguarded(provider_id) ==
    IF provider_id \notin DOMAIN providers
    THEN KeyError(provider_id)
    ELSE IF providers[provider_id].requires_api_key
    THEN Returns(providers[provider_id].api_key_name)
    ELSE Returns(None)

get_api_key_name(provider_id) ==
    IF provider_id \in DOMAIN providers /\ providers[provider_id].requires_api_key
    THEN Returns(providers[provider_id].api_key_name)
    ELSE Returns(None)

get_api_key_instruction(provider_id) ==
    IF provider_id \in DOMAIN providers /\ providers[provider_id].requires_api_key
    THEN Returns(providers[provider_id].api_key_instruction)
    ELSE Returns(None)

-----------------------------------------------------------------------------
(* Inputs of a construction *)

\* provider ids a caller may pass: the catalog's, the processor's own "google",
\* and one id nobody knows
ProviderIds == {"openai", "huggingface", "anthropic", "google", "local", "cohere"}

\* api_key values: None, the empty string, two distinct credentials
ApiKeys == {None, "", "k1", "k2"}

\* the credential variables of os.environ the code writes
EnvVars == {"OPENAI_API_KEY", "HUGGINGFACEHUB_API_TOKEN", "ANTHROPIC_API_KEY",
            "GOOGLE_API_KEY", "HUGGINGFACE_API_TOKEN"}

\* a guard that tests `api_key is None` only
Falsy_NoneOnly(api_key) == api_key = None

\* Python truthiness of an Optional[str]: `not api_key`
Falsy(api_key) == api_key = None \/ api_key = ""

NoClient == [cls |-> None, provider |-> None, api_key |-> None]

Ok(llm, e) == [raised |-> FALSE, err |-> <<>>, llm |-> llm, env |-> e]
Raise(msg, e) == [raised |-> TRUE, err |-> msg, llm |-> NoClient, env |-> e]

-----------------------------------------------------------------------------
(* EnhancedLLMProcessor: construction (models/enhanced_llm_processor.py) *)

\* os.environ[var] = api_key
Stage(e, var, api_key) == [e EXCEPT ![var] = api_key]

\* ChatOpenAI(model_name, temperature, max_tokens): no key argument is passed,
\* so the client takes its credential from os.environ["OPENAI_API_KEY"] as it
\* stands when the constructor runs
BuildOpenAI(e) ==
    [cls |-> "ChatOpenAI", provider |-> "openai", api_key |-> e["OPENAI_API_KEY"]]

\* HuggingFaceHub(..., huggingfacehub_api_token=self.api_key)
BuildHuggingFace(api_key) ==
    [cls |-> "HuggingFaceHub", provider |-> "huggingface", api_key |-> api_key]

\* ChatAnthropic(..., anthropic_api_key=self.api_key)
BuildAnthropic(api_key) ==
    [cls |-> "ChatAnthropic", provider |-> "anthropic", api_key |-> api_key]

\* ChatGoogleGenerativeAI(..., google_api_key=self.api_key)
BuildGoogle(api_key) ==
    [cls |-> "ChatGoogleGenerativeAI", provider |-> "google", api_key |-> api_key]

\* the variable each _initialize_<provider> stages the key into
EnvVarOf(provider_id) ==
    CASE provider_id = "openai"      -> "OPENAI_API_KEY"
      [] provider_id = "huggingface" -> "HUGGINGFACEHUB_API_TOKEN"
      [] provider_id = "anthropic"   -> "ANTHROPIC_API_KEY"
      [] provider_id = "google"      -> "GOOGLE_API_KEY"

\* the provider's name in the messages of _initialize_<provider>
DisplayOf(provider_id) ==
    CASE provider_id = "openai"      -> "OpenAI"
      [] provider_id = "huggingface" -> "Hugging Face"
      [] provider_id = "anthropic"   -> "Anthropic"
      [] provider_id = "google"      -> "Google AI"

\* _initialize_<provider>, first half: the imports, the `if not self.api_key`
\* guard and os.environ[...] = self.api_key.  importOk: the package imports.
\*   ImportError      -> re-raised as ImportError
\*   missing api_key  -> ValueError, caught by `except Exception`, re-raised wrapped
InitStage(provider_id, api_key, importOk, e) ==
    IF ~importOk
    THEN Raise(<<DisplayOf(provider_id), " package not installed">>, e)
    ELSE IF Falsy(api_key)
    THEN Raise(<<"Failed to initialize ", DisplayOf(provider_id), " LLM: ",
                 "API key is required for ", DisplayOf(provider_id)>>, e)
    ELSE Ok(NoClient, Stage(e, EnvVarOf(provider_id), api_key))

\* _initialize_<provider>, second half: the client constructor, called with
\* os.environ as it stands then.  backendOk: the constructor returns; its
\* exception is re-raised wrapped.
InitBuild(provider_id, api_key, backendOk, e) ==
    IF backendOk
    THEN Ok(CASE provider_id = "openai"      -> BuildOpenAI(e)
              [] provider_id = "huggingface" -> BuildHuggingFace(api_key)
              [] provider_id = "anthropic"   -> BuildAnthropic(api_key)
              [] provider_id = "google"      -> BuildGoogle(api_key),
            e)
    ELSE Raise(<<"Failed to initialize ", DisplayOf(provider_id), " LLM: ",
                 "backend error">>, e)

\* one _initialize_<provider> run without interruption
InitBody(provider_id, api_key, importOk, backendOk, e) ==
    LET staged == InitStage(provider_id, api_key, importOk, e)
    IN  IF staged.raised THEN staged
        ELSE InitBuild(provider_id, api_key, backendOk, staged.env)

_initialize_openai(api_key, importOk, backendOk, e) ==
    InitBody("openai", api_key, importOk, backendOk, e)

_initialize_huggingface(api_key, importOk, backendOk, e) ==
    InitBody("huggingface", api_key, importOk, backendOk, e)

_initialize_anthropic(api_key, importOk, backendOk, e) ==
    InitBody("anthropic", api_key, importOk, backendOk, e)

_initialize_google(api_key, importOk, backendOk, e) ==
    InitBody("google", api_key, importOk, backendOk, e)

\* "local" quietly served by the Hugging Face client
_initialize_local_fallback(e) == Ok(BuildHuggingFace(None), e)

\* raise NotImplementedError("Local models are not yet supported ...")
_initialize_local(e) ==
    Raise(<<"Local models are not yet supported in this version">>, e)

\* the if/elif chain over self.provider_id
_initialize_llm(provider_id, api_key, importOk, backendOk, e) ==
    IF provider_id = "openai"
    THEN _initialize_openai(api_key, importOk, backendOk, e)
    ELSE IF provider_id = "huggingface"
    THEN _initialize_huggingface(api_key, importOk, backendOk, e)
    ELSE IF provider_id = "anthropic"
    THEN _initialize_anthropic(api_key, importOk, backendOk, e)
    ELSE IF provider_id = "google"
    THEN _initialize_google(api_key, importOk, backendOk, e)
    ELSE IF provider_id = "local"
    THEN _initialize_local(e)
    ELSE Raise(<<"Unsupported provider: ", provider_id>>, e)

NoProc == [state |-> "none", provider_id |-> None, api_key |-> None,
           llm |-> NoClient, error |-> <<>>]

\* EnhancedLLMProcessor.__init__: the fields, then self.llm = self._initialize_llm();
\* an exception of _initialize_llm leaves the caller without an object
EnhancedLLMProcessor(provider_id, api_key, importOk, backendOk, e) ==
    LET r == _initialize_llm(provider_id, api_key, importOk, backendOk, e)
    IN  [proc |-> [state |-> IF r.raised THEN "failed" ELSE "ready",
                   provider_id |-> provider_id,
                   api_key |-> api_key,
                   llm |-> r.llm,
                   error |-> r.err],
         env |-> r.env]


-----------------------------------------------------------------------------
(* What the LLM backend may answer to one invoke *)

\* str(e) of an exception raised by llm.invoke
ErrMsgs == {<<>>, <<"rate limit">>}

\* raw summary texts a backend may return
SummaryTexts == {<<>>, <<"s">>, <<" ", "s", " ">>}

\* lexemes of a flashcard response: brackets, comma, two well-formed
\* {"question", "answer"} objects, an object with a "question" and no
\* "answer" key, and a word that is not JSON
Lexemes == {"[", "]", ",", "c0", "c1", "c2", "x"}

\* responses longer than MaxLen that the claims speak of
LongResponses ==
    { <<"[", "c1", ",", "c2", "]">>,
      <<"[", "c2", ",", "c1", "]">>,
      <<"x", "[", "c1", ",", "c2", "]", "x">>,
      <<"[", "c1", "]", "x", "[", "c2", "]">>,
      <<"[", "[", "c1", "]", ",", "c2", "]">> }

FlashcardTexts == SeqsUpTo(Lexemes, MaxLen) \cup LongResponses

Returned(text) == [kind |-> "ok", text |-> text, err |-> <<>>]
Raised(err) == [kind |-> "raise", text |-> <<>>, err |-> err]

SummaryResponses ==
    {Returned(t) : t \in SummaryTexts} \cup {Raised(m) : m \in ErrMsgs}

FlashcardResponses ==
    {Returned(t) : t \in FlashcardTexts} \cup {Raised(m) : m \in ErrMsgs}

\* note texts handed to process_notes
NoteTexts == {<<>>, <<"n", "o", "t", "e">>}

-----------------------------------------------------------------------------
(* json.loads on a sequence of lexemes *)

\* a decoded JSON value: an object (a dict with the keys `keys`), or a list
Card(q, a) ==
    [kind |-> "object", keys |-> {"question", "answer"},
     question |-> q, answer |-> a, items |-> <<>>]
List(items) ==
    [kind |-> "list", keys |-> {}, question |-> <<>>, answer |-> <<>>,
     items |-> items]

\* the object an object lexeme decodes to; that of "c0" has no "answer" key
Decode(lexeme) ==
    CASE lexeme = "c0" -> [kind |-> "object", keys |-> {"question"},
                           question |-> <<"X0">>, answer |-> <<>>, items |-> <<>>]
      [] lexeme = "c1" -> Card(<<"X1">>, <<"Y1">>)
      [] lexeme = "c2" -> Card(<<"X2">>, <<"Y2">>)

ObjectLexemes == {"c0", "c1", "c2"}

ParseFail == [ok |-> FALSE, val |-> List(<<>>), rest |-> <<>>]
ParseOk(v, rest) == [ok |-> TRUE, val |-> v, rest |-> rest]

RECURSIVE ParseValue(_), ParseElems(_, _)

\* one JSON value at the head of s
ParseValue(s) ==
    IF s = <<>> THEN ParseFail
    ELSE IF Head(s) \in ObjectLexemes THEN ParseOk(Decode(Head(s)), Tail(s))
    ELSE IF Head(s) = "["
    THEN IF Tail(s) = <<>> THEN ParseFail
         ELSE IF Head(Tail(s)) = "]" THEN ParseOk(List(<<>>), Tail(Tail(s)))
         ELSE ParseElems(Tail(s), <<>>)
    ELSE ParseFail

\* the elements of an array after its '[': value (',' value)* ']'
ParseElems(s, acc) ==
    LET r == ParseValue(s)
    IN  IF ~r.ok \/ r.rest = <<>> THEN ParseFail
        ELSE IF Head(r.rest) = "]"
        THEN ParseOk(List(Append(acc, r.val)), Tail(r.rest))
        ELSE IF Head(r.rest) = ","
        THEN ParseElems(Tail(r.rest), Append(acc, r.val))
        ELSE ParseFail

\* json.loads(json_str): the value, or JSONDecodeError (ok = FALSE) when the
\* text is no single JSON value
json_loads(json_str) ==
    LET r == ParseValue(json_str)
    IN  IF r.ok /\ r.rest = <<>>
        THEN [ok |-> TRUE, val |-> r.val]
        ELSE [ok |-> FALSE, val |-> List(<<>>)]


-----------------------------------------------------------------------------
(* EnhancedLLMProcessor: generation and normalisation *)

\* the providers whose client is invoked chat-style (a HumanMessage in,
\* response.content out)
ChatProviders == {"openai", "anthropic", "google"}

\* max_input_length of process_notes
max_input_length == 4000

\* an Optional[str] holding text: None, or a string
PyNone == [is_none |-> TRUE, text |-> <<>>]
PyStr(t) == [is_none |-> FALSE, text |-> t]

SummaryPrompt(text) == [task |-> "summary", notes |-> text]
FlashcardPrompt(text) == [task |-> "flashcards", notes |-> text]

Value(v, issued) == [raised |-> FALSE, err |-> <<>>, value |-> v, calls |-> issued]
Throw(err, issued) == [raised |-> TRUE, err |-> err, value |-> <<>>, calls |-> issued]

\* the call made a second time when the first raised
Invoke_Retry(provider_id, prompt, schemaOk, resp) ==
    IF provider_id \in ChatProviders
    THEN IF ~schemaOk
         THEN Throw(<<"No module named 'langchain'">>, <<>>)
         ELSE LET issued == <<[style |-> "chat", prompt |-> prompt]>>
              IN  IF resp.kind = "raise" THEN Throw(resp.err, issued \o issued)
                  ELSE Value(resp.text, issued)
    ELSE LET issued == <<[style |-> "completion", prompt |-> prompt]>>
         IN  IF resp.kind = "raise" THEN Throw(resp.err, issued \o issued)
             ELSE Value(resp.text, issued)

\* The statements inside the try of _generate_summary / _generate_flashcards
\* that obtain the response text.  schemaOk: `from langchain.schema import
\* HumanMessage` succeeds (only chat-style providers import it); resp: what
\* llm.invoke does.
Invoke(provider_id, prompt, schemaOk, resp) ==
    IF provider_id \in ChatProviders
    THEN IF ~schemaOk
         THEN Throw(<<"No module named 'langchain'">>, <<>>)
         ELSE LET issued == <<[style |-> "chat", prompt |-> prompt]>>
              IN  IF resp.kind = "raise" THEN Throw(resp.err, issued)
                  ELSE Value(resp.text, issued)
    ELSE LET issued == <<[style |-> "completion", prompt |-> prompt]>>
         IN  IF resp.kind = "raise" THEN Throw(resp.err, issued)
             ELSE Value(resp.text, issued)

\* _generate_summary without its except clause: the exception escapes
SummaryHandler_NoCatch(r) == r

\* _generate_summary returning an empty string from its except clause
SummaryHandler_Empty(r) ==
    IF r.raised THEN Value(<<>>, r.calls) ELSE r

\* `except Exception as e: return f"Error generating summary: {str(e)}"`
SummaryHandler(r) ==
    IF r.raised
    THEN Value(<<"Error generating summary: ">> \o r.err, r.calls)
    ELSE r

_generate_summary(provider_id, text, schemaOk, resp) ==
    SummaryHandler(Invoke(provider_id, SummaryPrompt(text), schemaOk, resp))

\* the default flashcard returned when no JSON array could be extracted
DefaultFlashcard ==
    Card(<<"What are the main topics covered in these notes?">>,
         <<"The notes cover various academic concepts. ",
           "Please review the summary for details.">>)

\* the flashcard returned from `except Exception as e`
ErrorFlashcard(err) ==
    Card(<<"Error creating flashcards">>, <<"An error occurred: ">> \o err)

\* the extraction with json_end one short, so that the slice leaves the
\* closing bracket out
ExtractFlashcards_ShortSlice(response_text) ==
    LET json_start == find(response_text, "[")
        json_end   == rfind(response_text, "]")
    IN  IF json_start >= 0 /\ json_end > json_start
        THEN LET json_str == Slice(response_text, json_start, json_end)
                 parsed   == json_loads(json_str)
             IN  IF parsed.ok
                 THEN parsed.val.items
                 ELSE <<DefaultFlashcard>>
        ELSE <<DefaultFlashcard>>

\* "Extract JSON from response": the statements after the response text is known
ExtractFlashcards(response_text) ==
    LET json_start == find(response_text, "[")
        json_end   == rfind(response_text, "]") + 1
    IN  IF json_start >= 0 /\ json_end > json_start
        THEN LET json_str == Slice(response_text, json_start, json_end)
                 parsed   == json_loads(json_str)
             IN  IF parsed.ok
                 THEN parsed.val.items
                 ELSE <<DefaultFlashcard>>
        ELSE <<DefaultFlashcard>>

\* _generate_flashcards returning the default flashcard from its except clause
FlashcardHandler_Default(r) ==
    IF r.raised THEN Value(<<DefaultFlashcard>>, r.calls) ELSE r

\* `except Exception as e:` of _generate_flashcards
FlashcardHandler(r) ==
    IF r.raised
    THEN Value(<<ErrorFlashcard(r.err)>>, r.calls)
    ELSE r

_generate_flashcards(provider_id, text, schemaOk, resp) ==
    LET r == Invoke(provider_id, FlashcardPrompt(text), schemaOk, resp)
    IN  FlashcardHandler(IF r.raised THEN r
                         ELSE Value(ExtractFlashcards(r.value), r.calls))

\* the truncation taken at max_input_length characters already
Truncate_AtLimit(text) ==
    IF Len(text) >= max_input_length
    THEN Slice(text, 0, max_input_length) \o <<"...">>
    ELSE text

\* "Truncate text if too long".  The "..." appended is one element.
Truncate(text) ==
    IF Len(text) > max_input_length
    THEN Slice(text, 0, max_input_length) \o <<"...">>
    ELSE text

\* process_notes giving up on the flashcards once the summary call has failed:
\* the flashcard call is not issued and the default flashcard stands in
process_notes_SummaryFirst(provider_id, text, schemaOk, sumResp, fcResp) ==
    LET t == Truncate(text)
        r == Invoke(provider_id, SummaryPrompt(t), schemaOk, sumResp)
        s == SummaryHandler(r)
        f == _generate_flashcards(provider_id, t, schemaOk, fcResp)
    IN  IF r.raised
        THEN [status |-> "returned", summary |-> PyStr(s.value),
              flashcards |-> <<DefaultFlashcard>>, calls |-> s.calls]
        ELSE [status |-> "returned", summary |-> PyStr(s.value),
              flashcards |-> f.value, calls |-> s.calls \o f.calls]

\* process_notes: truncate, summary, flashcards, the result dictionary.  An
\* exception escaping either helper escapes process_notes.
process_notes(provider_id, text, schemaOk, sumResp, fcResp) ==
    LET t == Truncate(text)
        s == _generate_summary(provider_id, t, schemaOk, sumResp)
        f == _generate_flashcards(provider_id, t, schemaOk, fcResp)
    IN  IF s.raised
        THEN [status |-> "raised", summary |-> PyNone, flashcards |-> <<>>,
              calls |-> s.calls]
        ELSE IF f.raised
        THEN [status |-> "raised", summary |-> PyNone, flashcards |-> <<>>,
              calls |-> s.calls \o f.calls]
        ELSE [status |-> "returned", summary |-> PyStr(s.value),
              flashcards |-> f.value, calls |-> s.calls \o f.calls]

-----------------------------------------------------------------------------
(* Idle values of the state *)

NoEnv == [v \in EnvVars |-> None]
NoReq == [text |-> <<>>, schemaOk |-> TRUE, sum |-> Returned(<<>>), fc |-> Returned(<<>>)]
NoOut == [status |-> "none", summary |-> PyNone, flashcards |-> <<>>]
IdleWorker == [pc |-> "idle", provider_id |-> None, api_key |-> None, llm |-> NoClient]
NoWorkers == [t \in 1..NThreads |-> IdleWorker]
NoLine == [status |-> "none", raw |-> <<>>]
\* st.session_state as app/main.py initialises it, with the configuration keys
\* at the defaults get_llm_config_from_session_state reads for them
NoSession ==
    [summary |-> PyNone, flashcards |-> <<>>, current_flashcard |-> 0,
     show_answer |-> FALSE, llm_configured |-> FALSE, active_tab |-> "Upload",
     llm_provider_id |-> "huggingface", llm_api_key |-> None,
     uploaded_file |-> FALSE]
NoClick == [status |-> "none", init |-> "skipped", init_raised |-> FALSE,
            calls |-> <<>>, errors |-> <<>>]

NoSave == [status |-> "none", built |-> FALSE, errors |-> <<>>]
NoLookup == [method |-> "none", provider_id |-> None, name |-> None]
NoAnswer == [status |-> "none", raised |-> FALSE, value |-> None]

procVars == <<env, proc, req, out, calls>>
concVars == <<workers>>
lineVars == <<line_in, line_out>>
appVars  == <<session, tmp_files, last_click, last_save>>
regVars  == <<lookup, answer>>

-----------------------------------------------------------------------------
(* Spec: one processor, constructed once and asked to process notes *)

Init ==
    /\ env = NoEnv
    /\ proc = NoProc
    /\ req = NoReq
    /\ out = NoOut
    /\ calls = <<>>
    /\ workers = NoWorkers
    /\ line_in = NoLine
    /\ line_out = <<>>
    /\ session = NoSession
    /\ tmp_files = 0
    /\ last_click = NoClick
    /\ last_save = NoSave
    /\ lookup = NoLookup
    /\ answer = NoAnswer

\* EnhancedLLMProcessor(provider_id, model_id, api_key, ...)
Construct ==
    /\ proc.state = "none"
    /\ \E provider_id \in ProviderIds, api_key \in ApiKeys,
          importOk \in BOOLEAN, backendOk \in BOOLEAN :
          LET r == EnhancedLLMProcessor(provider_id, api_key, importOk, backendOk, env)
          IN  /\ proc' = r.proc
              /\ env' = r.env
    /\ UNCHANGED <<req, out, calls, concVars, lineVars, appVars, regVars>>

\* processor.process_notes(text), with what the backend answers to each call
ProcessNotes ==
    /\ proc.state = "ready"
    /\ out.status = "none"
    /\ \E text \in NoteTexts, schemaOk \in BOOLEAN,
          sumResp \in SummaryResponses, fcResp \in FlashcardResponses :
          \* a response is an input only where a call is issued
          /\ (~schemaOk) => /\ proc.provider_id \in ChatProviders
                            /\ sumResp = Returned(<<>>)
                            /\ fcResp = Returned(<<>>)
          /\ LET r == process_notes(proc.provider_id, text, schemaOk, sumResp, fcResp)
             IN  /\ req' = [text |-> text, schemaOk |-> schemaOk,
                            sum |-> sumResp, fc |-> fcResp]
                 /\ out' = [status |-> r.status, summary |-> r.summary,
                            flashcards |-> r.flashcards]
                 /\ calls' = r.calls
    /\ UNCHANGED <<env, proc, concVars, lineVars, appVars, regVars>>

\* the caller is done with the result; the processor can be asked again
Release ==
    /\ out.status # "none"
    /\ req' = NoReq
    /\ out' = NoOut
    /\ calls' = <<>>
    /\ UNCHANGED <<env, proc, concVars, lineVars, appVars, regVars>>

Next == Construct \/ ProcessNotes \/ Release

Spec == Init /\ [][Next]_vars


-----------------------------------------------------------------------------
(* Properties of process_notes, checked under Spec *)

\* the summary call did not produce a response
SummaryCallFailed == req.sum.kind = "raise" \/ ~req.schemaOk

\* the flashcard call did not produce a response
FlashcardCallFailed == req.fc.kind = "raise" \/ ~req.schemaOk

\* str(e) of the exception that made the flashcard call fail
FlashcardCallError ==
    IF ~req.schemaOk THEN <<"No module named 'langchain'">> ELSE req.fc.err

\* str(e) of the exception that made the summary call fail
SummaryCallError ==
    IF ~req.schemaOk THEN <<"No module named 'langchain'">> ELSE req.sum.err

\* the text has a '[' somewhere before a ']'
HasBracketPair(t) ==
    \E i, j \in 1..Len(t) : i < j /\ t[i] = "[" /\ t[j] = "]"

\* the piece of the text from its first '[' to its last ']'
Embedded(t) ==
    LET first == CHOOSE i \in 1..Len(t) :
                     t[i] = "[" /\ \A k \in 1..Len(t) : t[k] = "[" => i <= k
        last  == CHOOSE j \in 1..Len(t) :
                     t[j] = "]" /\ \A k \in 1..Len(t) : t[k] = "]" => k <= j
    IN  SubSeq(t, first, last)

\* C1 (as claimed): whatever the backend answers to the summary call and to the
\* flashcard call, the result of process_notes has a summary that is not None
\* and at least one flashcard.
C1_ResultNeverEmpty ==
    out.status = "returned" =>
        /\ ~out.summary.is_none
        /\ Len(out.flashcards) >= 1

\* C2: a constructed processor's process_notes never raises, whether the
\* summary call, the flashcard call, both or neither fail: every call that was
\* made has returned a result.
C2_ProcessNotesNeverRaises ==
    (proc.state = "ready" /\ out.status # "none") => out.status = "returned"

\* C2 witness: both generation calls raised and process_notes returned.
C2_Witness ==
    /\ out.status = "returned"
    /\ req.sum.kind = "raise"
    /\ req.fc.kind = "raise"

\* C3 (as claimed): when the response has no '[' before a ']', or its piece
\* from the first '[' to the last ']' does not parse, or that piece parses to
\* an empty list, _generate_flashcards returns exactly the one default
\* flashcard.
C3_FallbackInThreeCases ==
    (/\ out.status = "returned"
     /\ ~FlashcardCallFailed
     /\ \/ ~HasBracketPair(req.fc.text)
        \/ ~json_loads(Embedded(req.fc.text)).ok
        \/ json_loads(Embedded(req.fc.text)).val.items = <<>>)
    => out.flashcards = <<DefaultFlashcard>>

\* C9: when the flashcard generation call raises, the flashcards returned are
\* exactly one card whose answer contains the description of the error, and
\* process_notes has returned (not raised).
C9_ErrorFlashcardOnFailure ==
    (out.status # "none" /\ FlashcardCallFailed) =>
        /\ out.status = "returned"
        /\ Len(out.flashcards) = 1
        /\ Contains(out.flashcards[1].answer, FlashcardCallError)

\* C9 witness: the flashcard call raised with a non-empty description while the
\* summary call succeeded.
C9_Witness ==
    /\ out.status = "returned"
    /\ req.fc.kind = "raise"
    /\ req.fc.err # <<>>
    /\ req.sum.kind = "ok"

\* C10 (as claimed): the summary returned is never empty.
C10_SummaryNeverEmpty ==
    out.status = "returned" => Len(out.summary.text) > 0

\* C10 (amended): the summary is never None; when the summary call fails it is
\* the non-empty placeholder "Error generating summary: " followed by the
\* error's description; it is empty only when the call succeeded and the
\* backend returned empty text.
C10_SummaryPlaceholderOnFailure ==
    out.status = "returned" =>
        /\ ~out.summary.is_none
        /\ SummaryCallFailed =>
              /\ out.summary.text = <<"Error generating summary: ">> \o SummaryCallError
              /\ Len(out.summary.text) > 0
        /\ Len(out.summary.text) = 0 =>
              (~SummaryCallFailed /\ req.sum.text = <<>>)

\* C10 witness: the summary call raised and the placeholder came back.
C10_Witness ==
    /\ out.status = "returned"
    /\ req.sum.kind = "raise"
    /\ out.summary.text = <<"Error generating summary: ">> \o req.sum.err

-----------------------------------------------------------------------------
(* Properties of construction, checked under Spec *)

\* C5: for a catalog provider that requires an API key, construction with a
\* None or empty api_key fails: no client is built and no generation call is
\* ever issued for that configuration.
C5_MissingKeyFailsConstruction ==
    (/\ proc.state # "none"
     /\ requires_api_key(proc.provider_id)
     /\ proc.api_key \in {None, ""})
    => /\ proc.state = "failed"
       /\ proc.llm = NoClient
       /\ out.status = "none"
       /\ calls = <<>>

\* C5 witness: a construction for openai with the empty key has failed.
C5_Witness ==
    /\ proc.state = "failed"
    /\ proc.provider_id = "openai"
    /\ proc.api_key = ""

\* C6: construction for an unknown provider id or for "local" fails, and a
\* construction that succeeds holds a client of the requested provider.
C6_NoSilentFallback ==
    /\ (proc.state # "none" /\ proc.provider_id \in {"local", "cohere"})
          => (proc.state = "failed" /\ proc.llm = NoClient)
    /\ proc.state = "ready" => proc.llm.provider = proc.provider_id

\* C6 witness: a construction for "local" has failed.
C6_Witness ==
    /\ proc.state = "failed"
    /\ proc.provider_id = "local"

-----------------------------------------------------------------------------
(* SpecConc: session threads construct processors at the same time.  A thread *)
(* may be preempted between os.environ[...] = self.api_key and the client     *)
(* constructor; os.environ is shared by the threads of the process.           *)

Threads == 1..NThreads

InitConc ==
    /\ env = NoEnv
    /\ proc = NoProc
    /\ req = NoReq
    /\ out = NoOut
    /\ calls = <<>>
    /\ workers = NoWorkers
    /\ line_in = NoLine
    /\ line_out = <<>>
    /\ session = NoSession
    /\ tmp_files = 0
    /\ last_click = NoClick
    /\ last_save = NoSave
    /\ lookup = NoLookup
    /\ answer = NoAnswer

\* thread t enters EnhancedLLMProcessor.__init__ and runs _initialize_llm up
\* to and including os.environ[...] = self.api_key
ConcBegin(t) ==
    /\ workers[t].pc = "idle"
    /\ \E provider_id \in ProviderIds, api_key \in ApiKeys, importOk \in BOOLEAN :
          LET r == IF provider_id \in {"openai", "huggingface", "anthropic", "google"}
                   THEN InitStage(provider_id, api_key, importOk, env)
                   ELSE _initialize_llm(provider_id, api_key, importOk, TRUE, env)
          IN  /\ workers' = [workers EXCEPT ![t] =
                     [pc |-> IF r.raised THEN "failed" ELSE "staged",
                      provider_id |-> provider_id,
                      api_key |-> api_key,
                      llm |-> NoClient]]
              /\ env' = r.env
    /\ UNCHANGED <<proc, req, out, calls, lineVars, appVars, regVars>>

\* thread t runs the client constructor of its _initialize_<provider>
ConcBuild(t) ==
    /\ workers[t].pc = "staged"
    /\ \E backendOk \in BOOLEAN :
          LET r == InitBuild(workers[t].provider_id, workers[t].api_key, backendOk, env)
          IN  /\ workers' = [workers EXCEPT ![t].pc = IF r.raised THEN "failed" ELSE "built",
                                            ![t].llm = r.llm]
              /\ env' = r.env
    /\ UNCHANGED <<proc, req, out, calls, lineVars, appVars, regVars>>

NextConc == \E t \in Threads : ConcBegin(t) \/ ConcBuild(t)

SpecConc == InitConc /\ [][NextConc]_vars

\* C7 (as claimed): constructions running at the same time do not interfere:
\* every client that has been built uses the credential of its own request.
C7_NoCredentialInterference ==
    \A t \in Threads :
        workers[t].pc = "built" => workers[t].llm.api_key = workers[t].api_key

-----------------------------------------------------------------------------
(* LLMProcessor.generate_flashcards: the line-tagged parser                   *)
(* (models/llm_processor.py).  Raw text is a sequence of characters.          *)

Whitespace == {" ", "\n", "\t"}

RECURSIVE lstrip(_), rstrip(_), split(_, _, _)

lstrip(s) ==
    IF s # <<>> /\ Head(s) \in Whitespace THEN lstrip(Tail(s)) ELSE s

rstrip(s) ==
    IF s # <<>> /\ s[Len(s)] \in Whitespace
    THEN rstrip(SubSeq(s, 1, Len(s) - 1))
    ELSE s

\* str.strip()
strip(s) == rstrip(lstrip(s))

\* str.startswith(prefix)
startswith(s, prefix) ==
    Len(s) >= Len(prefix) /\ SubSeq(s, 1, Len(prefix)) = prefix

\* str.split(sep) for a one-character separator: cur is the piece being read
split(s, sep, cur) ==
    IF s = <<>> THEN <<cur>>
    ELSE IF Head(s) = sep THEN <<cur>> \o split(Tail(s), sep, <<>>)
    ELSE split(Tail(s), sep, Append(cur, Head(s)))

\* Python truthiness of an Optional[str] holding text
Truthy(v) == ~v.is_none /\ v.text # <<>>

\* the state of the parsing loop before the first line
LoopStart == [flashcards |-> <<>>, current_question |-> PyNone, current_answer |-> PyNone]

\* the append made for every pending question, answered or not
Flush_Partial(st) ==
    IF Truthy(st.current_question)
    THEN Append(st.flashcards, Card(st.current_question.text, st.current_answer.text))
    ELSE st.flashcards

\* flashcards.append({...}) when a question and an answer are pending
Flush(st) ==
    IF Truthy(st.current_question) /\ Truthy(st.current_answer)
    THEN Append(st.flashcards, Card(st.current_question.text, st.current_answer.text))
    ELSE st.flashcards

\* the iteration keeping the marker in the question and answer text
LoopStep_KeepMarker(st, raw_line) ==
    LET line == strip(raw_line)
    IN  IF line = <<>> THEN st
        ELSE IF startswith(line, <<"Q", ":">>)
        THEN [flashcards |-> Flush(st),
              current_question |-> PyStr(line),
              current_answer |-> PyNone]
        ELSE IF startswith(line, <<"A", ":">>)
        THEN [st EXCEPT !.current_answer = PyStr(line)]
        ELSE st

\* one iteration of `for line in raw_flashcards.split('\n')`
LoopStep(st, raw_line) ==
    LET line == strip(raw_line)
    IN  IF line = <<>> THEN st
        ELSE IF startswith(line, <<"Q", ":">>)
        THEN [flashcards |-> Flush(st),
              current_question |-> PyStr(strip(Slice(line, 2, Len(line)))),
              current_answer |-> PyNone]
        ELSE IF startswith(line, <<"A", ":">>)
        THEN [st EXCEPT !.current_answer = PyStr(strip(Slice(line, 2, Len(line))))]
        ELSE st

RECURSIVE Loop(_, _)
Loop(st, lines) ==
    IF lines = <<>> THEN st ELSE Loop(LoopStep(st, Head(lines)), Tail(lines))

\* generate_flashcards, from the text the chain returned
generate_flashcards(raw_flashcards) ==
    Flush(Loop(LoopStart, split(raw_flashcards, "\n", <<>>)))

\* lines a raw text is made of
LineSet ==
    { <<>>,
      <<" ">>,
      <<"Q", ":", "x">>,
      <<"Q", ":", " ", "y", " ">>,
      <<"Q", ":">>,
      <<"A", ":", "a">>,
      <<" ", "A", ":", " ", "b">>,
      <<"A", ":">>,
      <<"x">> }

RECURSIVE join(_)
\* "\n".join(lines)
join(lines) ==
    IF lines = <<>> THEN <<>>
    ELSE IF Len(lines) = 1 THEN lines[1]
    ELSE lines[1] \o <<"\n">> \o join(Tail(lines))

\* longer texts: two pairs, two pairs around a blank line, questions left
\* without an answer, a question without text, two answers to one question
LongLineTexts ==
    LET Qx == <<"Q", ":", "x">>
        Qy == <<"Q", ":", " ", "y", " ">>
        Q0 == <<"Q", ":">>
        Aa == <<"A", ":", "a">>
        Ab == <<" ", "A", ":", " ", "b">>
    IN  { <<Qx, Aa, Qy, Ab>>,
          <<Qx, Aa, <<>>, Qy, Ab>>,
          <<Qx, Qy, Aa, Qx, Ab>>,
          <<Qx, Aa, Qy, Qx, Ab, Qy>>,
          <<Q0, Aa, Qx, Aa>>,
          <<Qx, Aa, Ab, Qy, Aa>> }

RawTexts == {join(ls) : ls \in SeqsUpTo(LineSet, MaxLines) \cup LongLineTexts}

InitLine ==
    /\ env = NoEnv
    /\ proc = NoProc
    /\ req = NoReq
    /\ out = NoOut
    /\ calls = <<>>
    /\ workers = NoWorkers
    /\ line_in \in {[status |-> "new", raw |-> r] : r \in RawTexts}
    /\ line_out = <<>>
    /\ session = NoSession
    /\ tmp_files = 0
    /\ last_click = NoClick
    /\ last_save = NoSave
    /\ lookup = NoLookup
    /\ answer = NoAnswer

\* LLMProcessor.generate_flashcards parses the text the chain returned
LineParse ==
    /\ line_in.status = "new"
    /\ line_in' = [line_in EXCEPT !.status = "done"]
    /\ line_out' = generate_flashcards(line_in.raw)
    /\ UNCHANGED <<procVars, concVars, appVars, regVars>>

NextLine == LineParse

SpecLine == InitLine /\ [][NextLine]_vars

\* C4 (as claimed): the line-tagged parser returns at least one flashcard for
\* every raw text.
C4_LineTaggedAtLeastOneCard ==
    line_in.status = "done" => Len(line_out) >= 1

-----------------------------------------------------------------------------
(* SpecApp: one browser session of app/main.py.  Every action is one run of   *)
(* the script, started by the widget the user touched.                        *)

\* what the API key text input can hold when Save Configuration is pressed
AppKeys == {"", "k1"}

\* what the backend answers in the application flow
AppSummaryResponses == {Returned(<<"s">>), Raised(<<"rate limit">>)}
AppFlashcardResponses ==
    { Returned(<<"[", "c1", ",", "c2", "]">>),
      Returned(<<"[", "]">>),
      Raised(<<"rate limit">>) }

Tabs == {"Upload", "Config", "Results"}

\* initialize_llm_processor without its try/except: the exception escapes
initialize_llm_processor_NoCatch(ss, importOk, backendOk, e) ==
    LET r == EnhancedLLMProcessor(ss.llm_provider_id, ss.llm_api_key,
                                  importOk, backendOk, e)
    IN  [raised |-> r.proc.state = "failed",
         processor |-> IF r.proc.state = "ready" THEN r.proc ELSE NoProc,
         errors |-> <<>>,
         env |-> r.env]

\* initialize_llm_processor (utils/llm_config.py): None when not configured,
\* the processor, or None with st.error when its construction raises
initialize_llm_processor(ss, importOk, backendOk, e) ==
    IF ~ss.llm_configured
    THEN [raised |-> FALSE, processor |-> NoProc, errors |-> <<>>, env |-> e]
    ELSE LET r == EnhancedLLMProcessor(ss.llm_provider_id, ss.llm_api_key,
                                       importOk, backendOk, e)
         IN  IF r.proc.state = "ready"
             THEN [raised |-> FALSE, processor |-> r.proc, errors |-> <<>>,
                   env |-> r.env]
             ELSE [raised |-> FALSE, processor |-> NoProc,
                   errors |-> <<"Failed to initialize LLM processor: ">>,
                   env |-> r.env]

\* setup_upload_section: with a file in the uploader, every run writes it to a
\* new NamedTemporaryFile(delete=False)
setup_upload_section(ss, files) ==
    IF ss.uploaded_file THEN files + 1 ELSE files

\* the files on disk after a run that rendered the tab ss.active_tab and did
\* not press Process Notes
Rendered(ss, files) ==
    IF ss.active_tab = "Upload" /\ ss.llm_configured
    THEN setup_upload_section(ss, files)
    ELSE files

InitApp ==
    /\ env = NoEnv
    /\ proc = NoProc
    /\ req = NoReq
    /\ out = NoOut
    /\ calls = <<>>
    /\ workers = NoWorkers
    /\ line_in = NoLine
    /\ line_out = <<>>
    /\ session = NoSession
    /\ tmp_files = 0
    /\ last_click = NoClick
    /\ last_save = NoSave
    /\ lookup = NoLookup
    /\ answer = NoAnswer

\* a tab button, "Go to LLM Configuration" or "Go to Upload & Process":
\* set_active_tab(tab) and st.experimental_rerun().  The file uploader keeps
\* its file only while the Upload tab stays rendered.
SetActiveTab(tab) ==
    LET ss == [session EXCEPT !.active_tab = tab,
                              !.uploaded_file = @ /\ tab = "Upload"
                                                  /\ session.active_tab = "Upload"]
    IN  /\ session.active_tab \in Tabs
        /\ Rendered(ss, tmp_files) <= MaxTmp
        /\ session' = ss
        /\ tmp_files' = Rendered(ss, tmp_files)
        /\ last_click' = NoClick
        /\ last_save' = NoSave
        /\ UNCHANGED <<procVars, concVars, lineVars, regVars>>

\* save_llm_config_to_session_state (utils/llm_config.py)
save_llm_config_to_session_state(ss, provider_id, api_key) ==
    [ss EXCEPT !.llm_provider_id = provider_id,
               !.llm_api_key = api_key,
               !.llm_configured = TRUE]

\* the Save Configuration branch whose except clause reports the failure and
\* leaves llm_configured as the save set it
display_config_tab_KeepConfigured(ss, provider_id, api_key, r) ==
    LET saved == save_llm_config_to_session_state(ss, provider_id, api_key)
    IN  IF r.proc.state = "ready"
        THEN [session |-> saved, errors |-> <<>>]
        ELSE [session |-> saved,
              errors |-> <<"LLM connection test failed: ">> \o r.proc.error]

\* the Save Configuration branch of display_config_tab: save, then construct
\* an EnhancedLLMProcessor from the values just saved (r is that construction)
display_config_tab(ss, provider_id, api_key, r) ==
    LET saved == save_llm_config_to_session_state(ss, provider_id, api_key)
    IN  IF r.proc.state = "ready"
        THEN [session |-> saved, errors |-> <<>>]
        ELSE [session |-> [saved EXCEPT !.llm_configured = FALSE],
              errors |-> <<"LLM connection test failed: ">> \o r.proc.error]

\* display_config_tab with Save Configuration pressed
SaveConfiguration ==
    /\ session.active_tab = "Config"
    /\ \E provider_id \in DOMAIN providers, key \in AppKeys,
          importOk \in BOOLEAN, backendOk \in BOOLEAN :
          LET api_key == IF requires_api_key(provider_id) THEN key ELSE None
              r == EnhancedLLMProcessor(provider_id, api_key, importOk, backendOk, env)
              shown == display_config_tab(session, provider_id, api_key, r)
          IN  /\ (~requires_api_key(provider_id)) => key = ""
              /\ session' = shown.session
              /\ env' = r.env
              /\ last_save' = [status |-> "saved",
                               built |-> r.proc.state = "ready",
                               errors |-> shown.errors]
    /\ last_click' = NoClick
    /\ UNCHANGED <<proc, req, out, calls, tmp_files, concVars, lineVars, regVars>>

\* the user puts a file into the uploader of the Upload tab
UploadFile ==
    /\ session.active_tab = "Upload"
    /\ session.llm_configured
    /\ LET ss == [session EXCEPT !.uploaded_file = TRUE]
       IN  /\ Rendered(ss, tmp_files) <= MaxTmp
           /\ session' = ss
           /\ tmp_files' = Rendered(ss, tmp_files)
    /\ last_click' = NoClick
    /\ last_save' = NoSave
    /\ UNCHANGED <<procVars, concVars, lineVars, regVars>>

\* the results stored without the flashcards
StoreResults_SummaryOnly(ss, r) ==
    [ss EXCEPT !.summary = r.summary,
               !.current_flashcard = 0,
               !.show_answer = FALSE]

\* "Store results in session state": the four assignments after process_notes
\* has returned
StoreResults(ss, r) ==
    [ss EXCEPT !.summary = r.summary,
               !.flashcards = r.flashcards,
               !.current_flashcard = 0,
               !.show_answer = FALSE]

\* display_upload_tab with Process Notes pressed
ProcessNotesClick ==
    /\ session.active_tab = "Upload"
    /\ session.llm_configured
    /\ session.uploaded_file
    /\ \E parseOk \in BOOLEAN, importOk \in BOOLEAN, backendOk \in BOOLEAN,
          text \in NoteTexts, schemaOk \in BOOLEAN,
          sumResp \in AppSummaryResponses, fcResp \in AppFlashcardResponses :
          LET created == setup_upload_section(session, tmp_files)
              init == initialize_llm_processor(session, importOk, backendOk, env)
              r == process_notes(init.processor.provider_id, text, schemaOk,
                                 sumResp, fcResp)
          IN  IF ~parseOk
              THEN \* FileParser.parse_file raised
                   /\ importOk /\ backendOk /\ schemaOk /\ text = <<>>
                   /\ sumResp = Returned(<<"s">>) /\ fcResp = Returned(<<"[", "]">>)
                   /\ last_click' = [status |-> "error", init |-> "skipped",
                                     init_raised |-> FALSE, calls |-> <<>>,
                                     errors |-> <<"Error processing file: ">>]
                   /\ tmp_files' = created - 1
                   /\ UNCHANGED <<session, env>>
              ELSE IF init.raised
              THEN \* caught by `except Exception` of display_upload_tab
                   /\ schemaOk /\ text = <<>>
                   /\ sumResp = Returned(<<"s">>) /\ fcResp = Returned(<<"[", "]">>)
                   /\ last_click' = [status |-> "error", init |-> "failed",
                                     init_raised |-> TRUE, calls |-> <<>>,
                                     errors |-> <<"Error processing file: ">>]
                   /\ tmp_files' = created - 1
                   /\ env' = init.env
                   /\ UNCHANGED session
              ELSE IF init.processor.state # "ready"
              THEN \* `if not llm_processor:` st.error, os.unlink, return
                   /\ schemaOk /\ text = <<>>
                   /\ sumResp = Returned(<<"s">>) /\ fcResp = Returned(<<"[", "]">>)
                   /\ last_click' = [status |-> "init_failed", init |-> "failed",
                                     init_raised |-> FALSE, calls |-> <<>>,
                                     errors |-> init.errors \o
                                         <<"Failed to initialize LLM processor. ">>]
                   /\ tmp_files' = created - 1
                   /\ env' = init.env
                   /\ UNCHANGED session
              ELSE /\ (~schemaOk) => /\ init.processor.provider_id \in ChatProviders
                                     /\ sumResp = Returned(<<"s">>)
                                     /\ fcResp = Returned(<<"[", "]">>)
                   /\ env' = init.env
                   /\ tmp_files' = created - 1
                   /\ IF r.status = "raised"
                      THEN /\ last_click' = [status |-> "error", init |-> "ok",
                                             init_raised |-> FALSE,
                                             calls |-> [i \in 1..Len(r.calls) |->
                                                           r.calls[i].prompt.task],
                                             errors |-> <<"Error processing file: ">>]
                           /\ UNCHANGED session
                      ELSE /\ last_click' = [status |-> "done", init |-> "ok",
                                             init_raised |-> FALSE,
                                             calls |-> [i \in 1..Len(r.calls) |->
                                                           r.calls[i].prompt.task],
                                             errors |-> <<>>]
                              \* store, set_active_tab("Results"), rerun
                           /\ session' = [StoreResults(session, r) EXCEPT
                                  !.active_tab = "Results",
                                  !.uploaded_file = FALSE]
    /\ last_save' = NoSave
       \* what the process_notes call of this click returned, if it made one
    /\ out' = IF last_click'.status = "done"
              THEN [status |-> "returned", summary |-> session'.summary,
                    flashcards |-> session'.flashcards]
              ELSE out
    /\ UNCHANGED <<proc, req, calls, concVars, lineVars, regVars>>

\* the flashcard buttons are drawn by display_results_tab when there are flashcards
FlashcardsShown ==
    /\ session.active_tab = "Results"
    /\ session.flashcards # <<>>

\* next_flashcard adding one with no modulo
next_flashcard_NoWrap ==
    /\ FlashcardsShown
    /\ session' = [session EXCEPT
           !.current_flashcard = @ + 1,
           !.show_answer = FALSE]
    /\ last_click' = NoClick
    /\ last_save' = NoSave
    /\ UNCHANGED <<procVars, tmp_files, concVars, lineVars, regVars>>

\* next_flashcard (on_click of "Next")
next_flashcard ==
    /\ FlashcardsShown
    /\ session' = [session EXCEPT
           !.current_flashcard = (@ + 1) % Len(session.flashcards),
           !.show_answer = FALSE]
    /\ last_click' = NoClick
    /\ last_save' = NoSave
    /\ UNCHANGED <<procVars, tmp_files, concVars, lineVars, regVars>>

\* prev_flashcard (on_click of "Previous")
prev_flashcard ==
    /\ FlashcardsShown
    /\ session' = [session EXCEPT
           !.current_flashcard = (@ - 1) % Len(session.flashcards),
           !.show_answer = FALSE]
    /\ last_click' = NoClick
    /\ last_save' = NoSave
    /\ UNCHANGED <<procVars, tmp_files, concVars, lineVars, regVars>>

\* toggle_answer (on_click of "Show Answer" / "Hide Answer")
toggle_answer ==
    /\ FlashcardsShown
    /\ session' = [session EXCEPT !.show_answer = ~@]
    /\ last_click' = NoClick
    /\ last_save' = NoSave
    /\ UNCHANGED <<procVars, tmp_files, concVars, lineVars, regVars>>

NextApp ==
    \/ \E tab \in Tabs : SetActiveTab(tab)
    \/ SaveConfiguration
    \/ UploadFile
    \/ ProcessNotesClick
    \/ next_flashcard
    \/ prev_flashcard
    \/ toggle_answer

SpecApp == InitApp /\ [][NextApp]_vars

\* C8: when, on a Process Notes click, building the client from the saved
\* configuration fails, initialize_llm_processor returns None without raising,
\* the failure is shown to the user, and no generation call is issued for
\* that click.
C8_NoGenerationAfterFailedInit ==
    last_click.init = "failed" =>
        /\ ~last_click.init_raised
        /\ last_click.status = "init_failed"
        /\ last_click.errors # <<>>
        /\ last_click.calls = <<>>

\* C8 witness: a Process Notes click on which the construction failed.
C8_Witness ==
    /\ last_click.init = "failed"
    /\ session.llm_configured
    /\ session.active_tab = "Upload"

-----------------------------------------------------------------------------
(* Generation: independence of the two calls, the summary text, embedded arrays *)

\* the flashcard call of process_notes is among the calls that were issued
FlashcardCallIssued ==
    \E i \in 1..Len(calls) : calls[i].prompt.task = "flashcards"

\* C11: the two generation tasks of process_notes are independent.  A summary
\* call that raised does not keep the flashcard call from being issued, the
\* flashcards are settled by the outcome of the flashcard call alone and the
\* summary by the outcome of the summary call alone.
C11_TasksIndependent ==
    out.status = "returned" =>
        /\ (req.schemaOk /\ req.sum.kind = "raise") => FlashcardCallIssued
        /\ out.flashcards =
               IF FlashcardCallFailed
               THEN <<ErrorFlashcard(FlashcardCallError)>>
               ELSE ExtractFlashcards(req.fc.text)
        /\ out.summary =
               IF SummaryCallFailed
               THEN PyStr(<<"Error generating summary: ">> \o SummaryCallError)
               ELSE PyStr(req.sum.text)

\* C11 witness: the summary call raised, the flashcard call answered with two
\* records and both records are in the result.
C11_Witness ==
    /\ out.status = "returned"
    /\ req.schemaOk
    /\ req.sum.kind = "raise"
    /\ req.fc = Returned(<<"[", "c1", ",", "c2", "]">>)
    /\ FlashcardCallIssued
    /\ Len(out.flashcards) = 2

\* C12 (as claimed): when the summary call succeeds, the summary is the text
\* the backend returned with its leading and trailing whitespace removed.
C12_SummaryTrimmed ==
    (out.status = "returned" /\ ~SummaryCallFailed) =>
        out.summary = PyStr(strip(req.sum.text))

\* the piece is a JSON array of one or more records: '[', records separated by
\* commas, ']'
IsRecordArray(a) ==
    /\ Len(a) >= 3
    /\ Len(a) % 2 = 1
    /\ a[1] = "["
    /\ a[Len(a)] = "]"
    /\ \A i \in 2..(Len(a) - 1) :
           IF i % 2 = 0 THEN a[i] \in {"c1", "c2"} ELSE a[i] = ","

\* the records of such an array, in array order
RecordsOf(a) == [k \in 1..((Len(a) - 1) \div 2) |-> Decode(a[2 * k])]

\* C13: when the response to the flashcard call holds a well-formed array of
\* question/answer records between its first '[' and its last ']', with or
\* without other text around it, _generate_flashcards returns exactly those
\* records in array order.
C13_EmbeddedArrayReturned ==
    (/\ out.status = "returned"
     /\ ~FlashcardCallFailed
     /\ HasBracketPair(req.fc.text)
     /\ IsRecordArray(Embedded(req.fc.text))) =>
        out.flashcards = RecordsOf(Embedded(req.fc.text))

\* C13 witness: the array of two records stands between other text and the
\* two records came back in array order.
C13_Witness ==
    /\ out.status = "returned"
    /\ req.fc = Returned(<<"x", "[", "c1", ",", "c2", "]", "x">>)
    /\ out.flashcards = <<Card(<<"X1">>, <<"Y1">>), Card(<<"X2">>, <<"Y2">>)>>

-----------------------------------------------------------------------------
(* The line-tagged parser: pairs, questions without an answer *)

\* the lines of the text that was parsed
Lines == split(line_in.raw, "\n", <<>>)

\* what a line is once its surrounding whitespace is gone
Kind(l) ==
    LET t == strip(l)
    IN  IF t = <<>> THEN "blank"
        ELSE IF startswith(t, <<"Q", ":">>) THEN "Q"
        ELSE IF startswith(t, <<"A", ":">>) THEN "A"
        ELSE "other"

\* the text of a 'Q:' or 'A:' line: marker and surrounding whitespace gone
TagText(l) == LET t == strip(l) IN strip(SubSeq(t, 3, Len(t)))

\* the lines that are not blank
Tagged == SelectSeq(Lines, LAMBDA l : Kind(l) # "blank")

\* the text is 'Q:' lines each followed by one 'A:' line with text, and blank
\* lines
QAPairs ==
    /\ Len(Tagged) % 2 = 0
    /\ \A k \in 1..(Len(Tagged) \div 2) :
           /\ Kind(Tagged[2 * k - 1]) = "Q"
           /\ Kind(Tagged[2 * k]) = "A"
           /\ TagText(Tagged[2 * k]) # <<>>

\* one flashcard for each pair, in order
PairCards ==
    [k \in 1..(Len(Tagged) \div 2) |->
        Card(TagText(Tagged[2 * k - 1]), TagText(Tagged[2 * k]))]

\* C14 (as claimed): a text of n 'Q:' lines each followed by one 'A:' line
\* with non-empty text, blank lines anywhere, parses to exactly n flashcards
\* in order, each with the marker and the surrounding whitespace stripped.
C14_PairsYieldCards ==
    (line_in.status = "done" /\ QAPairs) => line_out = PairCards

\* C14 (amended): the same, when every 'Q:' line has non-empty text too.
C14_NonEmptyPairsYieldCards ==
    (/\ line_in.status = "done"
     /\ QAPairs
     /\ \A k \in 1..(Len(Tagged) \div 2) : TagText(Tagged[2 * k - 1]) # <<>>) =>
        line_out = PairCards

\* C14 witness: two pairs around a blank line gave two flashcards in order.
C14_Witness ==
    /\ line_in.status = "done"
    /\ Lines = << <<"Q", ":", "x">>, <<"A", ":", "a">>, <<>>,
                  <<"Q", ":", " ", "y", " ">>, <<" ", "A", ":", " ", "b">> >>
    /\ line_out = <<Card(<<"x">>, <<"a">>), Card(<<"y">>, <<"b">>)>>

\* line i is a 'Q:' line with an 'A:' line before the next 'Q:' line
Answered(i) ==
    /\ Kind(Lines[i]) = "Q"
    /\ \E j \in (i + 1)..Len(Lines) :
           /\ Kind(Lines[j]) = "A"
           /\ \A k \in (i + 1)..(j - 1) : Kind(Lines[k]) # "Q"

\* line i is a 'Q:' line with no 'A:' line before the next 'Q:' line or the end
Unanswered(i) == Kind(Lines[i]) = "Q" /\ ~Answered(i)

RECURSIVE DropUnansweredFrom(_)
\* the lines from line i on, without the 'Q:' lines that have no answer
DropUnansweredFrom(i) ==
    IF i > Len(Lines) THEN <<>>
    ELSE IF Unanswered(i) THEN DropUnansweredFrom(i + 1)
    ELSE <<Lines[i]>> \o DropUnansweredFrom(i + 1)

\* C15: a 'Q:' line with no 'A:' line before the next 'Q:' line or the end of
\* the text gives no flashcard, and the flashcards are those of the text
\* without that line.
C15_UnansweredQuestionDropped ==
    line_in.status = "done" =>
        /\ Len(line_out) <= Cardinality({i \in 1..Len(Lines) : Answered(i)})
        /\ line_out = generate_flashcards(join(DropUnansweredFrom(1)))

\* C15 witness: a question without an answer between two pairs and another
\* one at the end; the two pairs gave the two flashcards.
C15_Witness ==
    /\ line_in.status = "done"
    /\ Len(Lines) = 6
    /\ Unanswered(3)
    /\ Unanswered(6)
    /\ line_out = <<Card(<<"x">>, <<"a">>), Card(<<"x">>, <<"b">>)>>

-----------------------------------------------------------------------------
(* SpecReg: one call of an LLMProviderManager method *)

Methods ==
    {"get_providers", "get_provider_names", "get_provider_id_by_name",
     "get_models_for_provider", "get_model_names_for_provider",
     "get_model_id_by_name", "requires_api_key", "get_api_key_name",
     "get_api_key_instruction"}

\* the methods that take a provider id
ByProviderId ==
    {"get_models_for_provider", "get_model_names_for_provider",
     "get_model_id_by_name", "requires_api_key", "get_api_key_name",
     "get_api_key_instruction"}

\* the methods that take a display name
ByName == {"get_provider_id_by_name", "get_model_id_by_name"}

\* provider ids a caller can pass: those of the catalog, "google" and "cohere"
\* that it does not hold, and None
LookupIds == ProviderIds \cup {None}

\* display names a caller can pass: every name of the catalog and one that is
\* not in it
LookupNames ==
    {providers[p].name : p \in DOMAIN providers}
    \cup UNION {{providers[p].models[i].name : i \in 1..Len(providers[p].models)} :
                   p \in DOMAIN providers}
    \cup {"Mistral"}

Lookups ==
    {l \in [method : Methods, provider_id : LookupIds, name : LookupNames \cup {None}] :
        /\ (l.method \notin ByProviderId) => l.provider_id = None
        /\ (l.method \in ByName) <=> l.name # None}

\* the method applied to its arguments
Call(l) ==
    CASE l.method = "get_providers" -> get_providers
      [] l.method = "get_provider_names" -> get_provider_names
      [] l.method = "get_provider_id_by_name" -> get_provider_id_by_name(l.name)
      [] l.method = "get_models_for_provider" -> get_models_for_provider(l.provider_id)
      [] l.method = "get_model_names_for_provider" ->
             get_model_names_for_provider(l.provider_id)
      [] l.method = "get_model_id_by_name" ->
             get_model_id_by_name(l.provider_id, l.name)
      [] l.method = "requires_api_key" -> Returns(requires_api_key(l.provider_id))
      [] l.method = "get_api_key_name" -> get_api_key_name(l.provider_id)
      [] l.method = "get_api_key_instruction" -> get_api_key_instruction(l.provider_id)

InitReg ==
    /\ env = NoEnv
    /\ proc = NoProc
    /\ req = NoReq
    /\ out = NoOut
    /\ calls = <<>>
    /\ workers = NoWorkers
    /\ line_in = NoLine
    /\ line_out = <<>>
    /\ session = NoSession
    /\ tmp_files = 0
    /\ last_click = NoClick
    /\ last_save = NoSave
    /\ lookup \in Lookups
    /\ answer = NoAnswer

\* the caller calls the method
LookupCall ==
    /\ answer.status = "none"
    /\ LET r == Call(lookup)
       IN  answer' = [status |-> "done", raised |-> r.raised, value |-> r.value]
    /\ UNCHANGED <<lookup, procVars, concVars, lineVars, appVars>>

NextReg == LookupCall

SpecReg == InitReg /\ [][NextReg]_vars

\* C16: no lookup raises for a provider id that the catalog does not hold:
\* get_models_for_provider and get_model_names_for_provider return the empty
\* list, requires_api_key returns False, get_model_id_by_name,
\* get_api_key_name and get_api_key_instruction return None.
C16_UnknownProviderNeverRaises ==
    (/\ answer.status = "done"
     /\ lookup.method \in ByProviderId
     /\ lookup.provider_id \notin DOMAIN providers) =>
        /\ ~answer.raised
        /\ CASE lookup.method \in {"get_models_for_provider",
                                   "get_model_names_for_provider"} ->
                     answer.value = <<>>
              [] lookup.method = "requires_api_key" -> answer.value = FALSE
              [] OTHER -> answer.value = None

\* C16 witness: get_api_key_name was asked about "cohere" and returned None.
C16_Witness ==
    /\ answer.status = "done"
    /\ lookup.method = "get_api_key_name"
    /\ lookup.provider_id = "cohere"
    /\ ~answer.raised
    /\ answer.value = None

\* C17: for every provider of the catalog get_models_for_provider returns a
\* list that is not empty and has no model id twice, and the provider ids the
\* catalog is written under are pairwise distinct.
C17_CatalogWellFormed ==
    /\ (/\ answer.status = "done"
        /\ lookup.method = "get_models_for_provider"
        /\ lookup.provider_id \in DOMAIN providers) =>
           /\ ~answer.raised
           /\ Len(answer.value) >= 1
           /\ \A i, j \in 1..Len(answer.value) :
                  i # j => answer.value[i].id # answer.value[j].id
    /\ \A i, j \in 1..Len(provider_items) :
           i # j => provider_items[i][1] # provider_items[j][1]

\* C17 witness: get_models_for_provider returned the four Hugging Face models.
C17_Witness ==
    /\ answer.status = "done"
    /\ lookup.method = "get_models_for_provider"
    /\ lookup.provider_id = "huggingface"
    /\ Len(answer.value) = 4

-----------------------------------------------------------------------------
(* SpecTrunc: process_notes on notes about max_input_length characters long *)

\* how far from max_input_length the lengths of the notes go, either way
Overrun == 2

\* n characters in which every k-th is a "b"
Fill(n, k) == [i \in 1..n |-> IF i % k = 0 THEN "b" ELSE "a"]

LongNoteTexts ==
    {Fill(n, k) : n \in (max_input_length - Overrun)..(max_input_length + Overrun),
                  k \in {2, 3}}

\* process_notes(text) on long notes
ProcessLongNotes ==
    /\ proc.state = "ready"
    /\ out.status = "none"
    /\ \E text \in LongNoteTexts, schemaOk \in BOOLEAN,
          sumResp \in AppSummaryResponses, fcResp \in AppFlashcardResponses :
          /\ (~schemaOk) => /\ proc.provider_id \in ChatProviders
                            /\ sumResp = Returned(<<"s">>)
                            /\ fcResp = Returned(<<"[", "]">>)
          /\ LET r == process_notes(proc.provider_id, text, schemaOk, sumResp, fcResp)
             IN  /\ req' = [text |-> text, schemaOk |-> schemaOk,
                            sum |-> sumResp, fc |-> fcResp]
                 /\ out' = [status |-> r.status, summary |-> r.summary,
                            flashcards |-> r.flashcards]
                 /\ calls' = r.calls
    /\ UNCHANGED <<env, proc, concVars, lineVars, appVars, regVars>>

NextTrunc ==
    \/ Construct
    \/ ProcessLongNotes
    \/ Release

SpecTrunc == Init /\ [][NextTrunc]_vars

\* the notes a prompt must carry for the text process_notes was given
IsTruncationOf(notes, text) ==
    IF Len(text) > max_input_length
    THEN /\ Len(notes) = max_input_length + 1
         /\ \A i \in 1..max_input_length : notes[i] = text[i]
         /\ notes[max_input_length + 1] = "..."
    ELSE notes = text

\* C18: process_notes cuts a text of more than 4000 characters down to its
\* first 4000 characters followed by "...", leaves a text of at most 4000
\* characters as it is, and puts the same text into the summary prompt and
\* into the flashcard prompt.
C18_TruncatedTextInBothPrompts ==
    out.status = "returned" =>
        /\ req.schemaOk =>
               /\ Len(calls) = 2
               /\ calls[1].prompt.task = "summary"
               /\ calls[2].prompt.task = "flashcards"
        /\ \A i \in 1..Len(calls) : IsTruncationOf(calls[i].prompt.notes, req.text)

\* C18 witness: notes two characters over the limit went into both prompts
\* cut down to the limit and marked.
C18_Witness ==
    /\ out.status = "returned"
    /\ Len(req.text) = max_input_length + 2
    /\ Len(calls) = 2
    /\ Len(calls[1].prompt.notes) = max_input_length + 1
    /\ calls[2].prompt.notes[max_input_length + 1] = "..."

-----------------------------------------------------------------------------
(* app/main.py: the configuration gate *)

\* the step is one on which the uploader took a file or Process Notes was
\* pressed
UploadControlUsed ==
    \/ session'.uploaded_file /\ ~session.uploaded_file
    \/ last_click'.status # "none"

\* C20: in app/main.py the uploader and the Process Notes button are there
\* only while llm_configured is true; after a Save Configuration click
\* llm_configured is true exactly when the EnhancedLLMProcessor constructed
\* from the saved configuration came into being, and a construction that
\* failed is reported and leaves llm_configured false.
C20_ConfiguredIffConstructed ==
    /\ [](last_save.status = "saved" =>
             /\ session.llm_configured <=> last_save.built
             /\ (~last_save.built) => last_save.errors # <<>>)
    /\ [][UploadControlUsed => session.llm_configured]_vars

\* C20 witness: a Save Configuration click whose construction failed; the
\* failure was reported and llm_configured is false.
C20_Witness ==
    /\ last_save.status = "saved"
    /\ ~last_save.built
    /\ last_save.errors # <<>>
    /\ ~session.llm_configured

-----------------------------------------------------------------------------
(* Shape of the flashcards, answers of the line-tagged parser, environment,   *)
(* number of calls, catalog and dispatch                                      *)

\* v is a record with a question and an answer that hold text
IsFlashcard(v) ==
    /\ v.kind = "object"
    /\ {"question", "answer"} \subseteq v.keys
    /\ v.question # <<>>
    /\ v.answer # <<>>

\* C22 (as claimed): every element of the flashcard list that process_notes
\* returns is a record with a question field and an answer field that both
\* hold non-empty text.
C22_FlashcardsAreRecords ==
    out.status = "returned" =>
        \A i \in 1..Len(out.flashcards) : IsFlashcard(out.flashcards[i])

\* the iteration as C23 describes it: an 'A:' line gives its text to a pending
\* question that has no answer yet, and does nothing otherwise
FirstAnswerStep(st, raw_line) ==
    LET line == strip(raw_line)
    IN  IF line = <<>> THEN st
        ELSE IF startswith(line, <<"Q", ":">>)
        THEN [flashcards |-> Flush(st),
              current_question |-> PyStr(strip(Slice(line, 2, Len(line)))),
              current_answer |-> PyNone]
        ELSE IF /\ startswith(line, <<"A", ":">>)
                /\ ~st.current_question.is_none
                /\ st.current_answer.is_none
        THEN [st EXCEPT !.current_answer = PyStr(strip(Slice(line, 2, Len(line))))]
        ELSE st

RECURSIVE FirstAnswerLoop(_, _)
FirstAnswerLoop(st, lines) ==
    IF lines = <<>> THEN st
    ELSE FirstAnswerLoop(FirstAnswerStep(st, Head(lines)), Tail(lines))

\* every 'Q:' line and every 'A:' line of the text has text after its marker
AllTagsHaveText ==
    \A i \in 1..Len(Lines) : Kind(Lines[i]) \in {"Q", "A"} => TagText(Lines[i]) # <<>>

\* C23 (as claimed): an 'A:' line completes the pending question with its own
\* text; of several 'A:' lines after one 'Q:' line the flashcard carries the
\* first, and an 'A:' line with no pending unanswered question creates or
\* alters no flashcard.
C23_FirstAnswerKept ==
    (line_in.status = "done" /\ AllTagsHaveText) =>
        line_out = Flush(FirstAnswerLoop(LoopStart, Lines))

\* C24 (as claimed): once the construction of a client has finished, with a
\* client or with an exception, the process-wide environment holds no
\* credential that the construction placed there: every credential variable
\* has the value it had before the construction began (here: it is unset).
C24_EnvironmentRestored ==
    proc.state \in {"ready", "failed"} => env = NoEnv

\* the tasks of the generation calls that were issued, in order
IssuedTasks == [i \in 1..Len(calls) |-> calls[i].prompt.task]

\* the message class of the chat-style call could not be imported, so that
\* neither helper got as far as its call
MessageImportFailed == proc.provider_id \in ChatProviders /\ ~req.schemaOk

\* C25 (as claimed): every call of process_notes issues exactly two generation
\* calls to the client, the one for the summary and then the one for the
\* flashcards, whatever their outcome.
C25_ExactlyTwoCalls ==
    out.status # "none" => IssuedTasks = <<"summary", "flashcards">>

\* C25 (amended): process_notes issues exactly those two calls, in that order
\* and whatever the outcome of either, unless the message class of a
\* chat-style provider cannot be imported; then it issues no call at all and
\* returns the two error placeholders.
C25_TwoCallsUnlessImportFails ==
    out.status # "none" =>
        IF MessageImportFailed
        THEN /\ calls = <<>>
             /\ out.status = "returned"
             /\ out.summary =
                    PyStr(<<"Error generating summary: ">> \o SummaryCallError)
             /\ out.flashcards = <<ErrorFlashcard(FlashcardCallError)>>
        ELSE IssuedTasks = <<"summary", "flashcards">>

\* C25 witness: the summary call raised and the flashcard call raised; each
\* was issued once.
C25_Witness ==
    /\ out.status = "returned"
    /\ ~MessageImportFailed
    /\ req.sum.kind = "raise"
    /\ req.fc.kind = "raise"
    /\ Len(calls) = 2
    /\ calls[1].prompt.task = "summary"
    /\ calls[2].prompt.task = "flashcards"

\* with some non-empty credential, with the client package installed and the
\* backend constructor not failing, a processor for the provider comes into
\* being
CanConstruct(provider_id) ==
    \E api_key \in ApiKeys :
        /\ ~Falsy(api_key)
        /\ EnhancedLLMProcessor(provider_id, api_key, TRUE, TRUE, NoEnv).proc.state
               = "ready"

\* C30 (as claimed): the catalog and the dispatch of _initialize_llm agree:
\* a provider id of the catalog that a construction was asked for is one for
\* which a processor can be constructed given a non-empty credential, and
\* every provider id a processor was constructed for is in the catalog.
C30_CatalogAgreesWithDispatch ==
    /\ (proc.state # "none" /\ proc.provider_id \in DOMAIN providers) =>
           CanConstruct(proc.provider_id)
    /\ proc.state = "ready" => proc.provider_id \in DOMAIN providers

-----------------------------------------------------------------------------
(* SpecCreate: one call of LLMProviderManager.create_llm *)

\* model ids a caller can pass: a chat model, a completion model of OpenAI, a
\* Hugging Face repository
CreateModelIds == {"gpt-4", "text-davinci-003", "google/flan-t5-base"}

\* `"gpt-3.5" in model_id or "gpt-4" in model_id`
IsChatModel(model_id) == model_id \in {"gpt-3.5-turbo", "gpt-4"}

\* what os.environ can hold when create_llm is called: nothing, or credentials
\* exported to the process beforehand
CreateEnvs ==
    { NoEnv,
      [NoEnv EXCEPT !["OPENAI_API_KEY"] = "k2",
                    !["HUGGINGFACEHUB_API_TOKEN"] = "k2"] }

\* a client constructor called with no credential argument: the client takes
\* the credential from its environment variable and raises when there is none
\* or when the backend fails (backendOk = FALSE)
BuildFromEnv(cls, provider_id, var, backendOk, e) ==
    IF e[var] = None \/ ~backendOk
    THEN [raised |-> TRUE, llm |-> NoClient, attempted |-> TRUE]
    ELSE [raised |-> FALSE,
          llm |-> [cls |-> cls, provider |-> provider_id, api_key |-> e[var]],
          attempted |-> TRUE]

\* "Set API key as environment variable if provided"
CreateStage(provider_id, api_key, e) ==
    IF ~Falsy(api_key) /\ requires_api_key(provider_id)
    THEN LET api_key_name == get_api_key_name(provider_id).value
         IN  IF api_key_name # None THEN Stage(e, api_key_name, api_key) ELSE e
    ELSE e

\* the try block of create_llm
CreateBody(provider_id, model_id, backendOk, e) ==
    CASE provider_id = "huggingface" ->
             BuildFromEnv("HuggingFaceHub", provider_id, "HUGGINGFACEHUB_API_TOKEN",
                          backendOk, e)
      [] provider_id = "openai" ->
             IF IsChatModel(model_id)
             THEN BuildFromEnv("ChatOpenAI", provider_id, "OPENAI_API_KEY", backendOk, e)
             ELSE BuildFromEnv("OpenAI", provider_id, "OPENAI_API_KEY", backendOk, e)
      [] OTHER -> [raised |-> FALSE, llm |-> NoClient, attempted |-> FALSE]

\* create_llm: the staging, the try block, `except Exception: return None`
create_llm(provider_id, model_id, api_key, backendOk, e) ==
    LET staged == CreateStage(provider_id, api_key, e)
        r == CreateBody(provider_id, model_id, backendOk, staged)
    IN  [raised |-> FALSE,
         value |-> IF r.raised THEN NoClient ELSE r.llm,
         attempted |-> r.attempted,
         backend_raised |-> r.raised,
         env |-> staged]

CreateCalls ==
    [method : {"create_llm"}, provider_id : LookupIds, name : {None},
     model_id : CreateModelIds, api_key : ApiKeys, backendOk : BOOLEAN]

InitCreate ==
    /\ env \in CreateEnvs
    /\ proc = NoProc
    /\ req = NoReq
    /\ out = NoOut
    /\ calls = <<>>
    /\ workers = NoWorkers
    /\ line_in = NoLine
    /\ line_out = <<>>
    /\ session = NoSession
    /\ tmp_files = 0
    /\ last_click = NoClick
    /\ last_save = NoSave
    /\ lookup \in CreateCalls
    /\ answer = NoAnswer

\* the caller calls create_llm
CreateCall ==
    /\ answer.status = "none"
    /\ LET r == create_llm(lookup.provider_id, lookup.model_id, lookup.api_key,
                           lookup.backendOk, env)
       IN  /\ answer' = [status |-> "done", raised |-> r.raised, value |-> r.value,
                         attempted |-> r.attempted,
                         backend_raised |-> r.backend_raised]
           /\ env' = r.env
    /\ UNCHANGED <<lookup, proc, req, out, calls, concVars, lineVars, appVars>>

NextCreate == CreateCall

SpecCreate == InitCreate /\ [][NextCreate]_vars

\* C26 (as claimed): create_llm called with a null or empty api_key for a
\* provider that requires a key returns None without attempting to construct
\* a backend client; create_llm never raises, and it returns None for a
\* provider id that is not in the catalog, for "anthropic", for "local" and
\* whenever the backend constructor raises.
C26_CreateFailsWithoutKey ==
    answer.status = "done" =>
        /\ ~answer.raised
        /\ (requires_api_key(lookup.provider_id) /\ Falsy(lookup.api_key)) =>
               /\ answer.value = NoClient
               /\ ~answer.attempted
        /\ (\/ lookup.provider_id \notin DOMAIN providers
            \/ lookup.provider_id \in {"anthropic", "local"}
            \/ answer.backend_raised) => answer.value = NoClient

-----------------------------------------------------------------------------
(* SpecCloud: one browser session of streamlit_app.py, a single page with the *)
(* three steps.  Every action is one run of the script.  The page has no      *)
(* tabs: active_tab is never set.                                             *)

\* st.session_state as streamlit_app.py initialises it: the configuration keys
\* are absent until a configuration is saved
CloudSession ==
    [NoSession EXCEPT !.active_tab = None, !.llm_provider_id = None]

IsCloud == session.active_tab = None

InitCloud ==
    /\ env = NoEnv
    /\ proc = NoProc
    /\ req = NoReq
    /\ out = NoOut
    /\ calls = <<>>
    /\ workers = NoWorkers
    /\ line_in = NoLine
    /\ line_out = <<>>
    /\ session = CloudSession
    /\ tmp_files = 0
    /\ last_click = NoClick
    /\ last_save = NoSave
    /\ lookup = NoLookup
    /\ answer = NoAnswer

\* "Save LLM Configuration" pressed: the values of the widgets are stored and
\* llm_configured is set; no client is constructed
CloudSave ==
    /\ IsCloud
    /\ \E provider_id \in DOMAIN providers, key \in AppKeys :
          LET api_key == IF requires_api_key(provider_id) THEN key ELSE None
          IN  /\ (~requires_api_key(provider_id)) => key = ""
              /\ session' = [session EXCEPT !.llm_provider_id = provider_id,
                                            !.llm_api_key = api_key,
                                            !.llm_configured = TRUE]
    /\ last_save' = [status |-> "saved", built |-> FALSE, errors |-> <<>>]
    /\ last_click' = NoClick
    /\ UNCHANGED <<procVars, tmp_files, concVars, lineVars, regVars>>

\* the user puts a file into the uploader of Step 2
CloudUpload ==
    /\ IsCloud
    /\ session.llm_configured
    /\ ~session.uploaded_file
    /\ session' = [session EXCEPT !.uploaded_file = TRUE]
    /\ last_click' = NoClick
    /\ last_save' = NoSave
    /\ UNCHANGED <<procVars, tmp_files, concVars, lineVars, regVars>>

\* "Process Notes" pressed: the temporary file is written, then parsed, the
\* processor is constructed from the saved configuration, process_notes runs,
\* the results are stored; the file is unlinked on both ways out of the try
CloudProcessNotes ==
    /\ IsCloud
    /\ session.llm_configured
    /\ session.uploaded_file
    /\ \E parseOk \in BOOLEAN, importOk \in BOOLEAN, backendOk \in BOOLEAN,
          text \in NoteTexts, schemaOk \in BOOLEAN,
          sumResp \in AppSummaryResponses, fcResp \in AppFlashcardResponses :
          LET c == EnhancedLLMProcessor(session.llm_provider_id, session.llm_api_key,
                                        importOk, backendOk, env)
              r == process_notes(c.proc.provider_id, text, schemaOk, sumResp, fcResp)
          IN  IF ~parseOk
              THEN \* FileParser.parse_file raised
                   /\ importOk /\ backendOk /\ schemaOk /\ text = <<>>
                   /\ sumResp = Returned(<<"s">>) /\ fcResp = Returned(<<"[", "]">>)
                   /\ last_click' = [status |-> "error", init |-> "skipped",
                                     init_raised |-> FALSE, calls |-> <<>>,
                                     errors |-> <<"Error processing file: ">>]
                   /\ UNCHANGED <<session, env, out>>
              ELSE IF c.proc.state # "ready"
              THEN \* EnhancedLLMProcessor(...) raised
                   /\ schemaOk /\ text = <<>>
                   /\ sumResp = Returned(<<"s">>) /\ fcResp = Returned(<<"[", "]">>)
                   /\ last_click' = [status |-> "error", init |-> "failed",
                                     init_raised |-> TRUE, calls |-> <<>>,
                                     errors |-> <<"Error processing file: ">>
                                                    \o c.proc.error]
                   /\ env' = c.env
                   /\ UNCHANGED <<session, out>>
              ELSE /\ (~schemaOk) => /\ c.proc.provider_id \in ChatProviders
                                     /\ sumResp = Returned(<<"s">>)
                                     /\ fcResp = Returned(<<"[", "]">>)
                   /\ env' = c.env
                   /\ last_click' = [status |-> "done", init |-> "ok",
                                     init_raised |-> FALSE,
                                     calls |-> [i \in 1..Len(r.calls) |->
                                                   r.calls[i].prompt.task],
                                     errors |-> <<>>]
                   /\ session' = StoreResults(session, r)
                   /\ out' = [status |-> r.status, summary |-> r.summary,
                              flashcards |-> r.flashcards]
    /\ tmp_files' = (tmp_files + 1) - 1
    /\ last_save' = NoSave
    /\ UNCHANGED <<proc, req, calls, concVars, lineVars, regVars>>

\* Step 3 draws the flashcard buttons when there is a summary and there are
\* flashcards
CloudFlashcardsShown ==
    /\ IsCloud
    /\ Truthy(session.summary)
    /\ session.flashcards # <<>>

\* "Next Card" pressed
CloudNext ==
    /\ CloudFlashcardsShown
    /\ session' = IF Len(session.flashcards) > 1
                  THEN [session EXCEPT
                           !.current_flashcard = (@ + 1) % Len(session.flashcards)]
                  ELSE session
    /\ last_click' = NoClick
    /\ last_save' = NoSave
    /\ UNCHANGED <<procVars, tmp_files, concVars, lineVars, regVars>>

\* "Previous Card" pressed
CloudPrev ==
    /\ CloudFlashcardsShown
    /\ session' = IF Len(session.flashcards) > 1
                  THEN [session EXCEPT
                           !.current_flashcard = (@ - 1) % Len(session.flashcards)]
                  ELSE session
    /\ last_click' = NoClick
    /\ last_save' = NoSave
    /\ UNCHANGED <<procVars, tmp_files, concVars, lineVars, regVars>>

\* "Show/Hide Answer" pressed
CloudToggle ==
    /\ CloudFlashcardsShown
    /\ session' = [session EXCEPT !.show_answer = ~@]
    /\ last_click' = NoClick
    /\ last_save' = NoSave
    /\ UNCHANGED <<procVars, tmp_files, concVars, lineVars, regVars>>

NextCloud ==
    \/ CloudSave
    \/ CloudUpload
    \/ CloudProcessNotes
    \/ CloudNext
    \/ CloudPrev
    \/ CloudToggle

SpecCloud == InitCloud /\ [][NextCloud]_vars

\* a processor can be constructed from the configuration held in the session
SavedConfigConstructs ==
    \E importOk \in BOOLEAN, backendOk \in BOOLEAN :
        EnhancedLLMProcessor(session.llm_provider_id, session.llm_api_key,
                             importOk, backendOk, env).proc.state = "ready"

\* C21 (as claimed): in streamlit_app.py a configuration from which no client
\* can be constructed, such as an empty API key for a provider that requires
\* one, is reported when it is saved, and the uploader and the Process Notes
\* button of Step 2 are there only for a saved configuration from which a
\* client can be constructed.
C21_CloudConfigProblemShown ==
    /\ (last_save.status = "saved" /\ ~SavedConfigConstructs) =>
           last_save.errors # <<>>
    /\ session.llm_configured => SavedConfigConstructs

-----------------------------------------------------------------------------
(* SpecApps: a browser session of either application *)

InitApps == InitApp \/ InitCloud

NextApps == NextApp \/ NextCloud

SpecApps == InitApps /\ [][NextApps]_vars

\* C27: after any sequence of Process Notes, Next, Previous and Show/Hide
\* Answer, in either application, the index current_flashcard lies within a
\* stored flashcard list that is not empty; Next and Previous move it by one
\* modulo the length of the list, and storing new results sets it to 0.
C27_IndexWithinFlashcards ==
    /\ [](session.flashcards # <<>> =>
             /\ 0 <= session.current_flashcard
             /\ session.current_flashcard < Len(session.flashcards))
    /\ [][last_click'.status = "done" => session'.current_flashcard = 0]_vars
    /\ [][(/\ session'.flashcards = session.flashcards
           /\ session'.current_flashcard # session.current_flashcard) =>
             \/ session'.current_flashcard =
                    (session.current_flashcard + 1) % Len(session.flashcards)
             \/ session'.current_flashcard =
                    (session.current_flashcard - 1) % Len(session.flashcards)]_vars

\* C27 witness: two flashcards are stored and the index is on the second.
C27_Witness ==
    /\ Len(session.flashcards) = 2
    /\ session.current_flashcard = 1

\* the four result fields of the session
Results(ss) ==
    <<ss.summary, ss.flashcards, ss.current_flashcard, ss.show_answer>>

-----------------------------------------------------------------------------
(* SpecAppFair: app/main.py with a user who keeps acting: the script is run  *)
(* again whenever a widget is touched                                         *)

SpecAppFair ==
    /\ InitApp
    /\ [][NextApp]_vars
    /\ WF_vars(NextApp)

\* C29 (as claimed): every temporary file created for an uploaded document is
\* deleted in the end: whenever temporary files exist, a time comes at which
\* none is left.
C29_TempFilesDeleted == (tmp_files > 0) ~> (tmp_files = 0)

=============================================================================
